---- MODULE Spec2Model ----
(***************************************************************************)
(* FIFO page-replacement simulator (FIFOSimulator.jsx): the component's    *)
(* React state, its event handlers and the FIFO engine inside              *)
(* runFIFOSimulation.                                                      *)
(*                                                                         *)
(* Representation.                                                         *)
(*  - A JavaScript string is modelled by its split on ',': a non-empty     *)
(*    sequence of tokens, each token a sequence of one-character strings.  *)
(*    split/join on ',' is a bijection between strings and such sequences, *)
(*    so inputRefString.split(',') is the variable itself.                 *)
(*  - A JavaScript number that may be NaN is a record [nan, val].          *)
(*  - null (an empty frame, no replaced page) is the integer -1 and        *)
(*    undefined (shift() of an empty array) the integer -2: the engine     *)
(*    only ever sees parsed references that passed the `n < 0` rejection,  *)
(*    so both are distinct from every page the engine handles, as null and *)
(*    undefined are distinct from every number under includes / indexOf.   *)
(*  - Array indices are 1-based; IndexOf returns 0 where indexOf gives -1. *)
(***************************************************************************)
EXTENDS Integers, Sequences, FiniteSets, TLC

VARIABLES inputRefString, frameCount, simulationSteps, pageFaults,
          currentStepIndex, isSimulated, validationError

vars == <<inputRefString, frameCount, simulationSteps, pageFaults,
          currentStepIndex, isSimulated, validationError>>

\* ------------------------------------------------------------------ bounds
\* Longest reference string typed reference by reference in Spec.
MaxLen == 6

\* ------------------------------------------------------ program constants
MaxRefs == 10
MinFrames == 3
MaxFrames == 5
null == -1
undefined == -2

ErrNone == ""
ErrFormat == "Error: Reference String contains non-numeric or invalid input."
ErrNegative == "Error: Page references must be non-negative (0 or greater)."
ErrLength == "Error: Please enter 1 to 10 page references."
ErrFrames == "Error: Frame count must be between 3 and 5."

\* --------------------------------------------------------------- numbers
Num(v) == [nan |-> FALSE, val |-> v]
NaN == [nan |-> TRUE, val |-> 0]
\* JavaScript isNaN, <, > on numbers: every comparison with NaN is false.
isNaN(x) == x.nan
Lt(x, y) == ~x.nan /\ ~y.nan /\ x.val < y.val
Gt(x, y) == ~x.nan /\ ~y.nan /\ x.val > y.val

\* ------------------------------------------------------------ characters
WhiteSpace == {" "}
DecDigits == <<"0", "1", "2", "3", "4", "5", "6", "7", "8", "9">>
HexDigits == DecDigits \o <<"a", "b", "c", "d", "e", "f">>

Range(s) == {s[i] : i \in 1..Len(s)}

DigitsOf(radix) == IF radix = 16 THEN HexDigits ELSE DecDigits

DigitValue(c, radix) ==
    (CHOOSE i \in 1..Len(DigitsOf(radix)) : DigitsOf(radix)[i] = c) - 1

RECURSIVE TrimStart(_)
TrimStart(s) ==
    IF s # <<>> /\ Head(s) \in WhiteSpace THEN TrimStart(Tail(s)) ELSE s

RECURSIVE TrimEnd(_)
TrimEnd(s) ==
    IF s # <<>> /\ s[Len(s)] \in WhiteSpace
    THEN TrimEnd(SubSeq(s, 1, Len(s) - 1))
    ELSE s

\* String.prototype.trim
trim(s) == TrimEnd(TrimStart(s))

\* The longest prefix of s made of digits of the radix, as a value; acc is
\* the value of the digits read so far.
RECURSIVE DigitPrefixValue(_, _, _)
DigitPrefixValue(s, radix, acc) ==
    IF s # <<>> /\ Head(s) \in Range(DigitsOf(radix))
    THEN DigitPrefixValue(Tail(s), radix, acc * radix + DigitValue(Head(s), radix))
    ELSE acc

\* parseInt(s) with no radix argument: leading white space is skipped, one
\* sign is read, a 0x prefix selects radix 16, then the longest digit
\* prefix is the value; NaN when that prefix is empty. -0 is 0 in every
\* comparison the component makes.
parseInt(s) ==
    LET t == TrimStart(s)
        neg == t # <<>> /\ Head(t) = "-"
        u == IF t # <<>> /\ Head(t) \in {"-", "+"} THEN Tail(t) ELSE t
        hex == Len(u) >= 2 /\ u[1] = "0" /\ u[2] \in {"x", "X"}
        radix == IF hex THEN 16 ELSE 10
        d == IF hex THEN SubSeq(u, 3, Len(u)) ELSE u
    IN  IF d = <<>> \/ Head(d) \notin Range(DigitsOf(radix))
        THEN NaN
        ELSE Num((IF neg THEN -1 ELSE 1) * DigitPrefixValue(d, radix, 0))

\* ------------------------------------------------------------ validation
\* pageStrings.map(trim).filter(s => s !== '').map(s => parseInt(s))
ParsePages(pageStrings) ==
    LET trimmed == [i \in 1..Len(pageStrings) |-> trim(pageStrings[i])]
        NonEmpty(s) == s # <<>>
        kept == SelectSeq(trimmed, NonEmpty)
    IN  [i \in 1..Len(kept) |-> parseInt(kept[i])]

\* Check 1: pages.some(isNaN) || pageStrings.some(s => s.trim() !== '' &&
\* isNaN(parseInt(s.trim())))
HasInvalidToken(pageStrings, pages) ==
    \/ \E i \in 1..Len(pages) : isNaN(pages[i])
    \/ \E i \in 1..Len(pageStrings) :
          trim(pageStrings[i]) # <<>> /\ isNaN(parseInt(trim(pageStrings[i])))

\* Check 2: pages.some(n => n < 0)
HasNegative(pages) == \E i \in 1..Len(pages) : Lt(pages[i], Num(0))

\* Mutant: the length check lets twelve references through.
BadLengthTwelve(pages) == Len(pages) = 0 \/ Len(pages) > MaxRefs + 2

\* Check 3: pages.length === 0 || pages.length > 10
BadLength(pages) == Len(pages) = 0 \/ Len(pages) > MaxRefs

\* Mutant: the lower limit of the frame count is off by one.
BadFrameCountLoose(fc) == Lt(fc, Num(MinFrames - 1)) \/ Gt(fc, Num(MaxFrames))

\* Check 4: frameCount < 3 || frameCount > 5
BadFrameCount(fc) == Lt(fc, Num(MinFrames)) \/ Gt(fc, Num(MaxFrames))

\* Mutant: the length is checked before the tokens.
ValidationLengthFirst(pageStrings, fc) ==
    LET pages == ParsePages(pageStrings)
    IN  IF BadLength(pages) THEN ErrLength
        ELSE IF HasInvalidToken(pageStrings, pages) THEN ErrFormat
        ELSE IF HasNegative(pages) THEN ErrNegative
        ELSE IF BadFrameCount(fc) THEN ErrFrames
        ELSE ErrNone

\* The message of the first failing check, ErrNone when all four pass.
ValidationResult(pageStrings, fc) ==
    LET pages == ParsePages(pageStrings)
    IN  IF HasInvalidToken(pageStrings, pages) THEN ErrFormat
        ELSE IF HasNegative(pages) THEN ErrNegative
        ELSE IF BadLength(pages) THEN ErrLength
        ELSE IF BadFrameCount(fc) THEN ErrFrames
        ELSE ErrNone

\* ---------------------------------------------------------------- engine
\* Array.prototype.includes over the frames
includes(frames, page) == \E i \in 1..Len(frames) : frames[i] = page

\* Mutant: lastIndexOf, the highest index holding v.
LastIndexOf(frames, v) ==
    IF \E j \in 1..Len(frames) : frames[j] = v
    THEN CHOOSE j \in 1..Len(frames) :
            frames[j] = v /\ \A k \in (j + 1)..Len(frames) : frames[k] # v
    ELSE 0

\* Array.prototype.indexOf: the lowest index holding v, 0 when there is none
IndexOf(frames, v) ==
    IF \E i \in 1..Len(frames) : frames[i] = v
    THEN CHOOSE i \in 1..Len(frames) :
            frames[i] = v /\ \A j \in 1..(i - 1) : frames[j] # v
    ELSE 0

\* frames[index] = page; an index of -1 (here 0) sets no array element
SetFrame(frames, index, page) ==
    IF index \in 1..Len(frames) THEN [frames EXCEPT ![index] = page] ELSE frames

\* Mutant: pop() instead of shift(): the newest page is taken.
popNewest(loadOrder) ==
    IF loadOrder = <<>>
    THEN [value |-> undefined, rest |-> <<>>]
    ELSE [value |-> loadOrder[Len(loadOrder)],
          rest |-> SubSeq(loadOrder, 1, Len(loadOrder) - 1)]

\* Mutant: loadOrder[0] instead of shift(): the front is read, not removed.
peekFront(loadOrder) ==
    IF loadOrder = <<>>
    THEN [value |-> undefined, rest |-> <<>>]
    ELSE [value |-> Head(loadOrder), rest |-> loadOrder]

\* loadOrder.shift(): the removed front element and the rest of the queue;
\* undefined, and the queue left empty, when the queue is empty
shift(loadOrder) ==
    IF loadOrder = <<>>
    THEN [value |-> undefined, rest |-> <<>>]
    ELSE [value |-> Head(loadOrder), rest |-> Tail(loadOrder)]

\* Mutant: rankMap[p] = index, the 0-based position.
RankMapZeroBased(loadOrder) ==
    [p \in Range(loadOrder) |->
        (CHOOSE i \in 1..Len(loadOrder) :
            loadOrder[i] = p /\ \A j \in (i + 1)..Len(loadOrder) : loadOrder[j] # p) - 1]

\* loadOrder.forEach((p, index) => rankMap[p] = index + 1): a later
\* position overwrites an earlier one of the same key
RankMap(loadOrder) ==
    [p \in Range(loadOrder) |->
        CHOOSE i \in 1..Len(loadOrder) :
            loadOrder[i] = p /\ \A j \in (i + 1)..Len(loadOrder) : loadOrder[j] # p]

\* Mutant: a truthiness test of the found page, which page 0 fails.
IsHitTruthy(frames, page) == includes(frames, page) /\ page # 0

\* The hit test of the loop body: frames.includes(page)
IsHit(frames, page) == includes(frames, page)

\* Mutant: a hit refreshes the page (least-recently-used order).
MoveToBack(loadOrder, page) ==
    LET Other(p) == p # page
    IN  Append(SelectSeq(loadOrder, Other), page)

\* The hit branch is empty: the queue is left as it is
LoadOrderOnHit(loadOrder, page) == loadOrder

\* Mutant: totalFaults++ on every reference.
CountEveryReference(totalFaults, hit) == totalFaults + 1

\* totalFaults++ in the fault branch only
CountFault(totalFaults, hit) == IF hit THEN totalFaults ELSE totalFaults + 1

\* One iteration of the loop over pages. e is the engine's working state
\* [frames, loadOrder, totalFaults, steps].
ProcessPage(e, page) ==
    LET hit == IsHit(e.frames, page)
        freeIndex == IndexOf(e.frames, null)
        evict == ~hit /\ freeIndex = 0
        shifted == shift(e.loadOrder)
        replacedPage == IF evict THEN shifted.value ELSE null
        frames2 ==
            IF hit THEN e.frames
            ELSE IF freeIndex # 0 THEN SetFrame(e.frames, freeIndex, page)
            ELSE SetFrame(e.frames, IndexOf(e.frames, shifted.value), page)
        loadOrder2 ==
            IF hit THEN LoadOrderOnHit(e.loadOrder, page)
            ELSE IF freeIndex # 0 THEN Append(e.loadOrder, page)
            ELSE Append(shifted.rest, page)
        snapshot == [pageReference |-> page,
                     frames |-> frames2,
                     isFault |-> ~hit,
                     replacedPage |-> replacedPage,
                     frameRanks |-> RankMap(loadOrder2)]
    IN  [frames |-> frames2,
         loadOrder |-> loadOrder2,
         totalFaults |-> CountFault(e.totalFaults, hit),
         steps |-> Append(e.steps, snapshot)]

\* Mutant: the frames start filled with 0 instead of null.
EngineInitZero(fc) ==
    [frames |-> [i \in 1..fc |-> 0],
     loadOrder |-> <<>>,
     totalFaults |-> 0,
     steps |-> <<>>]

\* let frames = Array(frameCount).fill(null); loadOrder = []; ...
EngineInit(fc) ==
    [frames |-> [i \in 1..fc |-> null],
     loadOrder |-> <<>>,
     totalFaults |-> 0,
     steps |-> <<>>]

RECURSIVE RunLoop(_, _)
RunLoop(e, pages) ==
    IF pages = <<>> THEN e ELSE RunLoop(ProcessPage(e, Head(pages)), Tail(pages))

\* The engine on validated input: pages are integers, fc an integer.
RunEngine(pages, fc) == RunLoop(EngineInit(fc), pages)

PageValues(pages) == [i \in 1..Len(pages) |-> pages[i].val]

\* ---------------------------------------------------------------- inputs
\* The token of a reference 0..99 as typed, and with a leading blank.
Ref(n) ==
    IF n < 10 THEN <<DecDigits[n + 1]>>
    ELSE <<DecDigits[(n \div 10) + 1], DecDigits[(n % 10) + 1]>>
SpRef(n) == <<" ">> \o Ref(n)

\* useState('1, 9, 3, 5, 6, 3, 2, 6')
DefaultInput ==
    <<Ref(1), SpRef(9), SpRef(3), SpRef(5), SpRef(6), SpRef(3), SpRef(2), SpRef(6)>>

\* The empty text field: ''.split(',') is ['']
EmptyInput == << <<>> >>

BeladyInput ==
    <<Ref(1), Ref(2), Ref(3), Ref(4), Ref(1), Ref(2), Ref(5),
      Ref(1), Ref(2), Ref(3), Ref(4), Ref(5)>>

\* Ten references over seven pages: evictions and hits with 3, 4 and 5 frames
TenInput ==
    <<Ref(0), Ref(1), Ref(2), Ref(3), Ref(4), Ref(5), Ref(0), Ref(6), Ref(1), Ref(5)>>

PastedInputs == {DefaultInput, EmptyInput, BeladyInput, TenInput}

\* Field texts with tokens that are no plain references.
Letter == <<"a">>
DigitThenLetter == <<"3", "x">>
Decimal == <<"1", ".", "5">>
Minus(n) == <<"-">> \o Ref(n)

\* '1,,2'  '1,2,'  ',1,2': an empty token beside references
EmptyTokenInput == <<Ref(1), <<>>, Ref(2)>>
TrailingCommaInput == <<Ref(1), Ref(2), <<>> >>
LeadingCommaInput == << <<>>, Ref(1), Ref(2)>>
\* 'a,1'  '1,3x,2'  '1.5,2': tokens that are no integer literals
LetterInput == <<Letter, Ref(1)>>
DigitThenLetterInput == <<Ref(1), DigitThenLetter, Ref(2)>>
DecimalInput == <<Decimal, Ref(2)>>
\* '1,-2,3': a negative reference
NegativeInput == <<Ref(1), Minus(2), Ref(3)>>
\* Eleven references 0..10
ElevenInput == [i \in 1..(MaxRefs + 1) |-> Ref(i - 1)]
\* Eleven references with the first negative; and with a letter as well
NegativeElevenInput == [ElevenInput EXCEPT ![1] = Minus(1)]
LetterNegativeElevenInput == [NegativeElevenInput EXCEPT ![2] = Letter]

MalformedInputs ==
    {EmptyTokenInput, TrailingCommaInput, LeadingCommaInput, LetterInput,
     DigitThenLetterInput, DecimalInput, NegativeInput, ElevenInput,
     NegativeElevenInput, LetterNegativeElevenInput}

\* The largest reference of a string of plain references, -1 for none.
MaxRef(pages) ==
    LET vals == {pages[i].val : i \in 1..Len(pages)}
    IN  IF vals = {} THEN -1 ELSE CHOOSE m \in vals : \A v \in vals : v <= m

\* The strings reached by typing one more reference after cur, at most
\* limit references long. A new page gets the next unused number, so each
\* string stands for all its renamings. With repeats FALSE the reference
\* just typed is not typed again at once. Typing goes on from the empty
\* field and from typed strings only.
TypedInputs(cur, limit, repeats) ==
    LET pages == ParsePages(cur)
        last == IF Len(pages) = 0 \/ repeats THEN -1 ELSE pages[Len(pages)].val
        typed == \/ cur = EmptyInput
                 \/ /\ Len(pages) = Len(cur)
                    /\ \A i \in 1..Len(cur) :
                          ~isNaN(pages[i]) /\ pages[i].val >= 0
                          /\ cur[i] = Ref(pages[i].val)
    IN  IF Len(pages) >= limit \/ ~typed
        THEN {}
        ELSE {IF Len(pages) = 0 THEN <<Ref(p)>> ELSE Append(cur, Ref(p)) :
                 p \in 0..(MaxRef(pages) + 1) \ {last}}

\* The values the frame-count field's onChange can store: parseInt of the
\* field text, NaN for a cleared field.
FrameCountValues == {Num(n) : n \in (MinFrames - 1)..(MaxFrames + 1)} \cup {NaN}

\* --------------------------------------------------------------- actions
Init ==
    /\ inputRefString = DefaultInput
    /\ frameCount = Num(3)
    /\ simulationSteps = <<>>
    /\ pageFaults = 0
    /\ currentStepIndex = -1
    /\ isSimulated = FALSE
    /\ validationError = ErrNone

\* onChange of the reference-string field (disabled while isSimulated)
EditRefString(limit, repeats) ==
    /\ ~isSimulated
    /\ \E v \in PastedInputs \cup TypedInputs(inputRefString, limit, repeats) :
          inputRefString' = v
    /\ UNCHANGED <<frameCount, simulationSteps, pageFaults, currentStepIndex,
                   isSimulated, validationError>>

SetInputRefString == EditRefString(MaxLen, TRUE)

\* onChange of the reference-string field, for the texts of MalformedInputs
PasteMalformedInput ==
    /\ ~isSimulated
    /\ \E v \in MalformedInputs : inputRefString' = v
    /\ UNCHANGED <<frameCount, simulationSteps, pageFaults, currentStepIndex,
                   isSimulated, validationError>>

\* Mutant: the frame-count field is not disabled while isSimulated.
SetFrameCountAlways ==
    /\ \E v \in FrameCountValues : frameCount' = v
    /\ UNCHANGED <<inputRefString, simulationSteps, pageFaults, currentStepIndex,
                   isSimulated, validationError>>

\* onChange of the frame-count field (disabled while isSimulated)
SetFrameCount ==
    /\ ~isSimulated
    /\ \E v \in FrameCountValues : frameCount' = v
    /\ UNCHANGED <<inputRefString, simulationSteps, pageFaults, currentStepIndex,
                   isSimulated, validationError>>

\* Mutant: the error message is not cleared at the start of the handler.
runWithoutClearingError ==
    /\ ~isSimulated
    /\ LET err == ValidationResult(inputRefString, frameCount)
           pages == PageValues(ParsePages(inputRefString))
       IN  IF err # ErrNone
           THEN /\ validationError' = err
                /\ UNCHANGED <<simulationSteps, pageFaults, currentStepIndex,
                               isSimulated>>
           ELSE IF isNaN(frameCount)
           THEN UNCHANGED <<validationError, simulationSteps, pageFaults,
                            currentStepIndex, isSimulated>>
           ELSE LET e == RunEngine(pages, frameCount.val)
                IN  /\ UNCHANGED validationError
                    /\ simulationSteps' = e.steps
                    /\ pageFaults' = e.totalFaults
                    /\ currentStepIndex' = 0
                    /\ isSimulated' = TRUE
    /\ UNCHANGED <<inputRefString, frameCount>>

\* onClick of Simulate (disabled while isSimulated)
runFIFOSimulation ==
    /\ ~isSimulated
    /\ LET err == ValidationResult(inputRefString, frameCount)
           pages == PageValues(ParsePages(inputRefString))
       IN  IF err # ErrNone
           THEN /\ validationError' = err
                /\ UNCHANGED <<simulationSteps, pageFaults, currentStepIndex,
                               isSimulated>>
           ELSE IF isNaN(frameCount)
           THEN \* Array(NaN) throws RangeError: only the queued
                \* setValidationError('') takes effect
                /\ validationError' = ErrNone
                /\ UNCHANGED <<simulationSteps, pageFaults, currentStepIndex,
                               isSimulated>>
           ELSE LET e == RunEngine(pages, frameCount.val)
                IN  /\ validationError' = ErrNone
                    /\ simulationSteps' = e.steps
                    /\ pageFaults' = e.totalFaults
                    /\ currentStepIndex' = 0
                    /\ isSimulated' = TRUE
    /\ UNCHANGED <<inputRefString, frameCount>>

Min(a, b) == IF a < b THEN a ELSE b
Max(a, b) == IF a > b THEN a ELSE b

\* The playback controls are rendered when isSimulated and there are steps.
PlaybackShown == isSimulated /\ Len(simulationSteps) > 0

\* Mutant: Next stops one step short of the last.
goToNextStepShort ==
    /\ PlaybackShown
    /\ currentStepIndex' =
          Min(currentStepIndex + 1, Max(Len(simulationSteps) - 2, 0))
    /\ UNCHANGED <<inputRefString, frameCount, simulationSteps, pageFaults,
                   isSimulated, validationError>>

\* Mutant: the index is raised without Math.min.
goToNextStepUnclamped ==
    /\ PlaybackShown
    /\ currentStepIndex' = currentStepIndex + 1
    /\ UNCHANGED <<inputRefString, frameCount, simulationSteps, pageFaults,
                   isSimulated, validationError>>

goToNextStep ==
    /\ PlaybackShown
    /\ currentStepIndex' = Min(currentStepIndex + 1, Len(simulationSteps) - 1)
    /\ UNCHANGED <<inputRefString, frameCount, simulationSteps, pageFaults,
                   isSimulated, validationError>>

goToPreviousStep ==
    /\ PlaybackShown
    /\ currentStepIndex' = Max(currentStepIndex - 1, 0)
    /\ UNCHANGED <<inputRefString, frameCount, simulationSteps, pageFaults,
                   isSimulated, validationError>>

\* Mutant: Reset forgets setValidationError('').
resetKeepingError ==
    /\ isSimulated' = FALSE
    /\ simulationSteps' = <<>>
    /\ pageFaults' = 0
    /\ currentStepIndex' = -1
    /\ UNCHANGED <<inputRefString, frameCount, validationError>>

\* Mutant: Reset forgets setPageFaults(0).
resetKeepingFaults ==
    /\ isSimulated' = FALSE
    /\ simulationSteps' = <<>>
    /\ currentStepIndex' = -1
    /\ validationError' = ErrNone
    /\ UNCHANGED <<inputRefString, frameCount, pageFaults>>

resetSimulation ==
    /\ isSimulated' = FALSE
    /\ simulationSteps' = <<>>
    /\ currentStepIndex' = -1
    /\ pageFaults' = 0
    /\ validationError' = ErrNone
    /\ UNCHANGED <<inputRefString, frameCount>>

Next ==
    \/ SetInputRefString
    \/ PasteMalformedInput
    \/ SetFrameCount
    \/ runFIFOSimulation
    \/ goToNextStep
    \/ goToPreviousStep
    \/ resetSimulation

Spec == Init /\ [][Next]_vars

\* ----------------------------------------------------------- trace reader
\* Mutant: slice(0, currentStepIndex), one step short.
visibleStepsShort ==
    IF currentStepIndex < 0 THEN <<>>
    ELSE SubSeq(simulationSteps, 1, Min(currentStepIndex, Len(simulationSteps)))

\* visibleSteps: simulationSteps.slice(0, currentStepIndex + 1)
visibleSteps ==
    IF currentStepIndex < 0 THEN <<>>
    ELSE SubSeq(simulationSteps, 1, Min(currentStepIndex + 1, Len(simulationSteps)))

\* visibleSteps[visibleSteps.length - 1] || null
currentStepData ==
    IF Len(visibleSteps) >= 1 THEN visibleSteps[Len(visibleSteps)] ELSE null

\* visibleSteps.filter(step => step.isFault).length
cumulativeFaults ==
    Cardinality({i \in 1..Len(visibleSteps) : visibleSteps[i].isFault})

\* The summary panel: visibleSteps.length - cumulativeFaults
cumulativeHits == Len(visibleSteps) - cumulativeFaults

\* The simulation output is rendered when visibleSteps.length > 0 &&
\* currentStepData; with a visible step currentStepData is a snapshot
\* object, which is truthy.
SimulationOutputShown == Len(visibleSteps) > 0

\* The final-summary block, inside the simulation output:
\* visibleSteps.length === simulationSteps.length
FinalResultsShown ==
    SimulationOutputShown /\ Len(visibleSteps) = Len(simulationSteps)

\* The colour class of the frame cell of row frameIndex (from 1) in the
\* column of step; only the last visible column is colour-coded.
CellClass(step, frameIndex, isLastStep) ==
    LET page == step.frames[frameIndex]
    IN  IF ~isLastStep THEN ""
        ELSE IF ~step.isFault
        THEN IF page = step.pageReference THEN "hit-cell" ELSE ""
        ELSE IF step.replacedPage # null
        THEN IF page = step.replacedPage THEN "replaced-cell"
             ELSE IF page = step.pageReference THEN "loaded-replace"
             ELSE ""
        ELSE IF page = step.pageReference THEN "loaded-free" ELSE ""

\* The classes of the cells of the grid: one row per frame, one column per
\* visible step.
GridClasses ==
    [frameIndex \in 1..frameCount.val |->
        [stepIndex \in 1..Len(visibleSteps) |->
            CellClass(visibleSteps[stepIndex], frameIndex,
                      stepIndex = Len(visibleSteps))]]

\* ------------------------------------------------- uninterrupted playback
\* The user sets the inputs, simulates and then keeps pressing Next:
\* neither Previous nor Reset is pressed. Next is a button the user can
\* always press while it is enabled, hence the weak fairness on it.
NextPlayback ==
    \/ SetInputRefString
    \/ SetFrameCount
    \/ runFIFOSimulation
    \/ goToNextStep

SpecPlayback == Init /\ [][NextPlayback]_vars /\ WF_vars(goToNextStep)

\* ------------------------------------------- the whole accepted domain
\* Every reference string the length check accepts, typed reference by
\* reference, without the restriction of Spec to MaxLen references. A
\* reference equal to the one before it is not typed: it is a hit for
\* every frame count and leaves frames and queue as they are, so it
\* changes no fault total.
TypeAnyReferences == EditRefString(MaxRefs, FALSE)

NextDomain ==
    \/ TypeAnyReferences
    \/ runFIFOSimulation

SpecDomain == Init /\ [][NextDomain]_vars

\* ================================================================ claims
NSteps == Len(simulationSteps)

\* The pages held by a frames array (its non-empty slots).
Resident(frames) == {frames[j] : j \in 1..Len(frames)} \ {null}

\* The frames before step i: those of snapshot i-1, all empty before step 1.
FramesBefore(i) ==
    IF i = 1 THEN [j \in 1..Len(simulationSteps[1].frames) |-> null]
    ELSE simulationSteps[i - 1].frames

FaultSteps == {i \in 1..NSteps : simulationSteps[i].isFault}
EvictionSteps == {i \in 1..NSteps : simulationSteps[i].replacedPage # null}

\* C1: FIFO eviction correctness. In every trace, a snapshot with a
\* replaced page has a predecessor, and the replaced page had load rank 1
\* in that predecessor.
C1_FifoEviction ==
    \A i \in 1..NSteps :
        LET s == simulationSteps[i]
        IN  s.replacedPage # null =>
                /\ i > 1
                /\ s.replacedPage \in DOMAIN simulationSteps[i - 1].frameRanks
                /\ simulationSteps[i - 1].frameRanks[s.replacedPage] = 1

\* A trace with two evictions, the second under 4 or 5 frames as well.
C1_Witness ==
    /\ Cardinality(EvictionSteps) >= 2
    /\ frameCount.val > MinFrames

\* C2: isFault is true exactly when the referenced page was not in the
\* frames before the step; page 0 is a page like any other and an empty
\* slot never counts as holding it.
C2_FaultIffNotResident ==
    \A i \in 1..NSteps :
        simulationSteps[i].isFault <=>
            simulationSteps[i].pageReference \notin Resident(FramesBefore(i))

\* Page 0 faults while slots are empty, and hits later while resident.
C2_Witness ==
    \E i \in 1..NSteps : \E j \in 1..NSteps :
        /\ i < j
        /\ simulationSteps[i].pageReference = 0
        /\ simulationSteps[i].isFault
        /\ null \in Range(FramesBefore(i))
        /\ simulationSteps[j].pageReference = 0
        /\ ~simulationSteps[j].isFault

DefaultRun ==
    isSimulated /\ inputRefString = DefaultInput /\ frameCount = Num(3)

\* C3: the default string 1,9,3,5,6,3,2,6 with 3 frames gives 8 snapshots
\* classified fault, fault, fault, fault, fault, hit, fault, hit, and a
\* fault total of 6.
C3_ScenarioClassification ==
    DefaultRun =>
        /\ NSteps = 8
        /\ [i \in 1..NSteps |-> simulationSteps[i].isFault]
              = <<TRUE, TRUE, TRUE, TRUE, TRUE, FALSE, TRUE, FALSE>>
        /\ pageFaults = 6

C3_Witness == DefaultRun /\ currentStepIndex = NSteps - 1

\* C4 as stated: in the default scenario the first three references load
\* with no replaced page, 5 replaces 1, 6 replaces 9 and 2 (the seventh
\* reference) replaces 5.
C4_Original ==
    DefaultRun =>
        /\ \A i \in 1..3 : simulationSteps[i].replacedPage = null
        /\ simulationSteps[4].replacedPage = 1
        /\ simulationSteps[5].replacedPage = 9
        /\ simulationSteps[7].replacedPage = 5

\* C4 amended: as stated, except that the seventh reference, 2, replaces
\* page 3, the oldest resident page (the hit on 3 does not refresh it).
C4_ScenarioVictims ==
    DefaultRun =>
        /\ \A i \in 1..3 : simulationSteps[i].replacedPage = null
        /\ simulationSteps[4].replacedPage = 1
        /\ simulationSteps[5].replacedPage = 9
        /\ simulationSteps[7].pageReference = 2
        /\ simulationSteps[7].replacedPage = 3

C4_Witness == DefaultRun /\ currentStepIndex = 6

\* The engine's fault total for the references of the input under h frames.
EngineFaults(h) ==
    RunEngine(PageValues(ParsePages(inputRefString)), h).totalFaults

TotalFaults ==
    [h \in MinFrames..MaxFrames |->
        IF Num(h) = frameCount THEN pageFaults ELSE EngineFaults(h)]

ShowsAnomaly(c, e) ==
    \E f \in MinFrames..MaxFrames : \E g \in MinFrames..MaxFrames :
        /\ f < g
        /\ e[g].totalFaults > e[f].totalFaults
        /\ ValidationResult(c, Num(f)) = ErrNone
        /\ ValidationResult(c, Num(g)) = ErrNone

EnginesAfter(c) ==
    [h \in MinFrames..MaxFrames |-> RunEngine(PageValues(ParsePages(c)), h)]

\* Whether the typed string c (references refs, largest top, engine states
\* e), or a string typed on from it by TypeAnyReferences, shows the anomaly.
RECURSIVE AnomalyTypedFrom(_, _, _, _)
AnomalyTypedFrom(c, refs, top, e) ==
    \/ ShowsAnomaly(c, e)
    \/ /\ Len(refs) < MaxRefs
       /\ \E p \in (0..(top + 1)) \ {refs[Len(refs)]} :
             AnomalyTypedFrom(Append(c, Ref(p)), Append(refs, p),
                              IF p > top THEN p ELSE top,
                              [h \in MinFrames..MaxFrames |-> ProcessPage(e[h], p)])

C7_FaultTotal ==
    /\ pageFaults = Cardinality(FaultSteps)
    /\ (isSimulated /\ currentStepIndex = NSteps - 1) => cumulativeFaults = pageFaults

\* All steps of a run with hits and faults are visible.
C7_Witness ==
    /\ isSimulated
    /\ currentStepIndex = NSteps - 1
    /\ NSteps >= 4
    /\ Cardinality(FaultSteps) \in 1..(NSteps - 1)

\* C8: a hit changes nothing. The snapshot's frames and load ranks are
\* those of the snapshot before, no page is replaced, and the fault total
\* counts no hit.
C8_HitChangesNothing ==
    /\ \A i \in 1..NSteps :
          ~simulationSteps[i].isFault =>
              /\ i > 1
              /\ simulationSteps[i].frames = simulationSteps[i - 1].frames
              /\ simulationSteps[i].frameRanks = simulationSteps[i - 1].frameRanks
              /\ simulationSteps[i].replacedPage = null
    /\ pageFaults = NSteps - Cardinality((1..NSteps) \ FaultSteps)

\* A hit on a page that is not the newest, after an eviction.
C8_Witness ==
    \E i \in 2..NSteps :
        /\ ~simulationSteps[i].isFault
        /\ \E k \in 1..(i - 1) : simulationSteps[k].replacedPage # null
        /\ simulationSteps[i].frameRanks[simulationSteps[i].pageReference]
              < Cardinality(DOMAIN simulationSteps[i].frameRanks)

\* The number of resident pages after step i, 0 before the first step.
Occupancy(i) == IF i = 0 THEN 0 ELSE Cardinality(Resident(simulationSteps[i].frames))

\* C9: occupancy. In every snapshot the resident pages are the keys of the
\* load ranks, there are at most frameCount of them, their number grows by
\* at most 1 per step, and once it is frameCount it stays frameCount.
C9_Occupancy ==
    \A i \in 1..NSteps :
        /\ Resident(simulationSteps[i].frames) = DOMAIN simulationSteps[i].frameRanks
        /\ Occupancy(i) <= frameCount.val
        /\ Occupancy(i) <= Occupancy(i - 1) + 1
        /\ Occupancy(i - 1) = frameCount.val => Occupancy(i) = frameCount.val

\* A run that fills the frames, evicts, and goes on.
C9_Witness ==
    \E i \in 1..NSteps :
        /\ i + 2 <= NSteps
        /\ Occupancy(i) = frameCount.val
        /\ Occupancy(i - 1) < frameCount.val
        /\ simulationSteps[i + 1].replacedPage # null

\* C10: cold start. The snapshot of the first occurrence of each page
\* value in the reference string is a fault.
C10_ColdStartFaults ==
    \A i \in 1..NSteps :
        (\A j \in 1..(i - 1) :
            simulationSteps[j].pageReference # simulationSteps[i].pageReference)
        => simulationSteps[i].isFault

\* Page 0 comes first, and a page first seen after a hit and an eviction.
C10_Witness ==
    /\ NSteps >= 5
    /\ simulationSteps[1].pageReference = 0
    /\ \E i \in 3..NSteps :
          /\ \A j \in 1..(i - 1) :
                simulationSteps[j].pageReference # simulationSteps[i].pageReference
          /\ ~simulationSteps[i - 1].isFault
          /\ simulationSteps[i].replacedPage # null

\* The references of the text in the field, as the handler parses them.
Pages == PageValues(ParsePages(inputRefString))

\* A step of the Simulate handler; the first two conjuncts are implied by
\* the handler and stated first so that other steps are told apart early.
SimulateStep ==
    /\ ~isSimulated
    /\ UNCHANGED <<inputRefString, frameCount>>
    /\ runFIFOSimulation

\* C11 as stated: for every input that passes validation, the trace holds
\* exactly one snapshot per reference, in input order: snapshot i has
\* pageReference = pages[i] and that page is resident in its frames.
C11_OneSnapshotPerReference ==
    [][(SimulateStep /\ ValidationResult(inputRefString, frameCount) = ErrNone)
        => /\ Len(simulationSteps') = Len(Pages)
           /\ \A i \in 1..Len(Pages) :
                 /\ simulationSteps'[i].pageReference = Pages[i]
                 /\ Pages[i] \in Resident(simulationSteps'[i].frames)]_vars

\* C11 where the engine runs: every stored trace has one snapshot per
\* reference of the input, in order, each holding its page.
C11_StoredTraceFollowsInput ==
    isSimulated =>
        /\ NSteps = Len(Pages)
        /\ \A i \in 1..NSteps :
              /\ simulationSteps[i].pageReference = Pages[i]
              /\ Pages[i] \in Resident(simulationSteps[i].frames)

NonNumericToken(t) == trim(t) # <<>> /\ isNaN(parseInt(trim(t)))
NegativeToken(t) ==
    trim(t) # <<>> /\ ~isNaN(parseInt(trim(t))) /\ parseInt(trim(t)).val < 0
AnyNonNumeric == \E i \in 1..Len(inputRefString) : NonNumericToken(inputRefString[i])
AnyNegative == \E i \in 1..Len(inputRefString) : NegativeToken(inputRefString[i])
\* The number of non-empty tokens.
RefCount ==
    Cardinality({i \in 1..Len(inputRefString) : trim(inputRefString[i]) # <<>>})
LengthOutOfRange == RefCount = 0 \/ RefCount > 10

\* C13: the rules are checked in the order format, negative, length,
\* frame count and the message is that of the first violated rule.
C13_FirstViolatedRule ==
    [][SimulateStep =>
        /\ AnyNonNumeric => validationError' = ErrFormat
        /\ (~AnyNonNumeric /\ AnyNegative) => validationError' = ErrNegative
        /\ (~AnyNonNumeric /\ ~AnyNegative /\ LengthOutOfRange)
              => validationError' = ErrLength
        /\ (~AnyNonNumeric /\ ~AnyNegative /\ ~LengthOutOfRange
              /\ (Lt(frameCount, Num(3)) \/ Gt(frameCount, Num(5))))
              => validationError' = ErrFrames]_vars

\* A letter, a negative value, eleven tokens and a bad frame count at once.
C13_Witness ==
    /\ inputRefString = LetterNegativeElevenInput
    /\ frameCount = Num(MaxFrames + 1)
    /\ validationError = ErrFormat

\* C14 as stated: a reference string with an empty token next to other
\* tokens fails validation with the invalid-format error and produces no
\* trace.
C14_EmptyTokenRejected ==
    [][(SimulateStep /\ Len(inputRefString) >= 2
            /\ \E i \in 1..Len(inputRefString) : trim(inputRefString[i]) = <<>>)
        => (validationError' = ErrFormat /\ ~isSimulated')]_vars

\* A non-negative integer literal: decimal digits only, at least one.
IsLiteral(t) == t # <<>> /\ \A i \in 1..Len(t) : t[i] \in Range(DecDigits)
IsNegativeLiteral(t) == Len(t) >= 2 /\ t[1] = "-" /\ IsLiteral(Tail(t))

\* C15 as stated: every non-empty reference token that is neither a
\* non-negative integer literal nor a negative integer fails validation
\* with the invalid-format error and is never accepted as a page number.
C15_NonLiteralRejected ==
    [][(SimulateStep
            /\ \E i \in 1..Len(inputRefString) :
                  LET t == trim(inputRefString[i])
                  IN  t # <<>> /\ ~IsLiteral(t) /\ ~IsNegativeLiteral(t))
        => (validationError' = ErrFormat /\ ~isSimulated')]_vars

\* The text is n well-formed references: the empty text for n = 0, else
\* every token a non-negative integer literal.
WellFormedInput ==
    \/ inputRefString = EmptyInput
    \/ \A i \in 1..Len(inputRefString) : IsLiteral(trim(inputRefString[i]))

\* C16: acceptance domain. For n well-formed references and an integer
\* frame count f, a trace is produced iff 1 <= n <= 10 and 3 <= f <= 5;
\* n = 0 or n > 10 gives the length error, a valid n with f outside 3..5
\* the frame-count error.
C16_AcceptanceDomain ==
    [][(SimulateStep /\ WellFormedInput /\ ~isNaN(frameCount)) =>
        LET n == RefCount
            f == frameCount.val
        IN  /\ (isSimulated' /\ Len(simulationSteps') = n)
                  <=> (n \in 1..10 /\ f \in 3..5)
            /\ ~isSimulated' => simulationSteps' = <<>>
            /\ (n = 0 \/ n > 10) => validationError' = ErrLength
            /\ (n \in 1..10 /\ (f < 3 \/ f > 5)) => validationError' = ErrFrames]_vars

\* Ten references simulated with 3 frames.
C16_Witness ==
    /\ isSimulated
    /\ NSteps = 10
    /\ frameCount = Num(3)

\* C17 as stated: every Simulate ends either with a validation error
\* message and no trace, or with a complete trace under a frame count in
\* 3..5; it never aborts.
C17_ErrorOrCompleteTrace ==
    [][SimulateStep =>
        \/ /\ validationError' # ErrNone
           /\ simulationSteps' = <<>>
           /\ ~isSimulated'
        \/ /\ isSimulated'
           /\ validationError' = ErrNone
           /\ Len(simulationSteps') = Len(Pages)
           /\ ~isNaN(frameCount)
           /\ frameCount.val \in 3..5]_vars

\* C18: a failed validation leaves nothing but its message (no trace, a
\* total of 0, index -1, not simulated), and a successful Simulate leaves
\* the message empty.
C18_FailureLeavesOnlyMessage ==
    /\ validationError # ErrNone =>
          /\ simulationSteps = <<>>
          /\ pageFaults = 0
          /\ currentStepIndex = -1
          /\ ~isSimulated
    /\ isSimulated => validationError = ErrNone

\* A failed validation, on a text that has references.
C18_Witness ==
    /\ validationError = ErrNegative
    /\ inputRefString = NegativeInput

\* C19: the trace is immutable between its creation and the next Reset.
\* While the simulated flag stays true, the snapshots, the fault total and
\* both inputs do not change; the trace changes only by Reset, to empty,
\* or by a Simulate issued while not simulated.
C19_TraceImmutable ==
    [][/\ (isSimulated /\ isSimulated') =>
             UNCHANGED <<simulationSteps, pageFaults, inputRefString, frameCount>>
       /\ simulationSteps' # simulationSteps =>
             \/ resetSimulation /\ simulationSteps' = <<>>
             \/ runFIFOSimulation /\ ~isSimulated]_vars

\* Playback has moved on over a trace.
C19_Witness ==
    /\ isSimulated
    /\ currentStepIndex >= 2
    /\ currentStepIndex < NSteps - 1

\* C20: trace-reader views. The visible steps are the first
\* currentStepIndex + 1 snapshots in trace order, never more than the
\* trace has; the current-step data is the last of them, or none; the
\* cumulative faults are the visible fault snapshots and the cumulative
\* hits the other visible snapshots.
C20_TraceReaderViews ==
    LET k == currentStepIndex + 1
    IN  /\ k \in 0..NSteps
        /\ visibleSteps = [i \in 1..k |-> simulationSteps[i]]
        /\ IF k = 0 THEN currentStepData = null
           ELSE currentStepData = simulationSteps[k]
        /\ cumulativeFaults = Cardinality({i \in 1..k : simulationSteps[i].isFault})
        /\ cumulativeHits = Cardinality({i \in 1..k : ~simulationSteps[i].isFault})
        /\ cumulativeHits = k - cumulativeFaults

\* In the middle of a trace, with faults and hits among the visible steps.
C20_Witness ==
    /\ isSimulated
    /\ currentStepIndex \in 1..(NSteps - 2)
    /\ cumulativeFaults >= 1
    /\ cumulativeHits >= 1

\* The engine's working state before the loop and after each iteration.
RECURSIVE EngineTrace(_, _)
EngineTrace(e, pages) ==
    IF pages = <<>> THEN <<e>>
    ELSE <<e>> \o EngineTrace(ProcessPage(e, Head(pages)), Tail(pages))

\* The working states of the run that produced the stored trace: element
\* i is the state before step i, element i + 1 the state after it.
Engines == EngineTrace(EngineInit(frameCount.val), Pages)

HasFreeSlot(frames) == \E j \in 1..Len(frames) : frames[j] = null
FirstFreeSlot(frames) ==
    CHOOSE j \in 1..Len(frames) :
        frames[j] = null /\ \A k \in 1..(j - 1) : frames[k] # null

\* C21: fault with a free slot. When the referenced page is not resident
\* and a slot is empty, the page goes into the lowest-index empty slot,
\* every other slot is unchanged, the page is appended at the back of the
\* load-order queue and nothing is removed from it, replacedPage is none;
\* and no page is replaced while a slot is still empty.
C21_FaultIntoFreeSlot ==
    isSimulated =>
        \A T \in {Engines} :
            \A i \in 1..NSteps :
                LET before == T[i]
                    after == T[i + 1]
                    s == simulationSteps[i]
                IN  /\ after.steps[i] = s
                    /\ (s.pageReference \notin Resident(before.frames)
                            /\ HasFreeSlot(before.frames))
                       => /\ s.isFault
                          /\ s.frames = SetFrame(before.frames,
                                FirstFreeSlot(before.frames), s.pageReference)
                          /\ after.frames = s.frames
                          /\ after.loadOrder = Append(before.loadOrder, s.pageReference)
                          /\ s.replacedPage = null
                    /\ s.replacedPage # null => ~HasFreeSlot(before.frames)

\* A page loaded into the third slot, the first two being taken, in a run
\* that goes on to replace a page.
C21_Witness ==
    /\ isSimulated
    /\ EvictionSteps # {}
    /\ \E i \in 3..NSteps :
          /\ simulationSteps[i].isFault
          /\ simulationSteps[i].replacedPage = null
          /\ simulationSteps[i].frames[3] = simulationSteps[i].pageReference
          /\ simulationSteps[i - 1].frames[3] = null

\* C22: fault with no free slot. The front of the load-order queue is
\* removed and recorded as replacedPage, the new page is written into the
\* slot that held the victim in the previous snapshot, every other slot is
\* unchanged, and the new page is appended at the back of the queue, whose
\* length stays frameCount.
C22_FaultWithEviction ==
    isSimulated =>
        \A T \in {Engines} :
            \A i \in 1..NSteps :
                LET before == T[i]
                    after == T[i + 1]
                    s == simulationSteps[i]
                IN  (s.pageReference \notin Resident(before.frames)
                        /\ ~HasFreeSlot(before.frames))
                    => /\ s.isFault
                       /\ i > 1
                       /\ before.frames = simulationSteps[i - 1].frames
                       /\ Len(before.loadOrder) = frameCount.val
                       /\ s.replacedPage = Head(before.loadOrder)
                       /\ \E j \in 1..Len(before.frames) :
                             /\ before.frames[j] = s.replacedPage
                             /\ s.frames = SetFrame(before.frames, j, s.pageReference)
                       /\ after.frames = s.frames
                       /\ after.loadOrder =
                             Append(Tail(before.loadOrder), s.pageReference)
                       /\ Len(after.loadOrder) = frameCount.val

\* A replacement in a slot other than the first, under 4 or 5 frames.
C22_Witness ==
    /\ isSimulated
    /\ frameCount.val > MinFrames
    /\ \E i \in 2..NSteps :
          /\ simulationSteps[i].replacedPage # null
          /\ \E j \in 2..frameCount.val :
                /\ simulationSteps[i - 1].frames[j] = simulationSteps[i].replacedPage
                /\ simulationSteps[i].frames[j] = simulationSteps[i].pageReference

\* C23: load ranks are the 1-based queue positions after the step. In
\* every snapshot with k resident pages the ranks are exactly 1..k, no two
\* pages share a rank, and the page at queue position r has rank r; on a
\* fault the referenced page has rank k; on an eviction every page that
\* stays resident has its rank of the previous snapshot reduced by 1.
C23_LoadRanks ==
    isSimulated =>
        \A T \in {Engines} :
            \A i \in 1..NSteps :
                LET s == simulationSteps[i]
                    ranks == s.frameRanks
                    queue == T[i + 1].loadOrder
                    k == Cardinality(Resident(s.frames))
                IN  /\ DOMAIN ranks = Resident(s.frames)
                    /\ {ranks[p] : p \in DOMAIN ranks} = 1..k
                    /\ \A p, q \in DOMAIN ranks : p # q => ranks[p] # ranks[q]
                    /\ Len(queue) = k
                    /\ \A r \in 1..k : ranks[queue[r]] = r
                    /\ s.isFault => ranks[s.pageReference] = k
                    /\ s.replacedPage # null =>
                          \A p \in Resident(s.frames) \ {s.pageReference} :
                              /\ p \in DOMAIN simulationSteps[i - 1].frameRanks
                              /\ ranks[p] = simulationSteps[i - 1].frameRanks[p] - 1

\* A replacement under 5 frames: four pages stay and move up one rank.
C23_Witness ==
    /\ isSimulated
    /\ frameCount = Num(MaxFrames)
    /\ \E i \in 2..NSteps :
          /\ simulationSteps[i].replacedPage # null
          /\ Cardinality(DOMAIN simulationSteps[i].frameRanks) = MaxFrames

\* C24: playback bounds. A successful Simulate sets the step index to 0;
\* while simulated the index stays within 0..len(trace)-1; Next raises it
\* by exactly 1 except at the last step, where it changes nothing, and
\* Previous lowers it by exactly 1 except at step 0, where it changes
\* nothing.
C24_PlaybackBounds ==
    [][/\ isSimulated' => currentStepIndex' \in 0..(Len(simulationSteps') - 1)
       /\ goToNextStep =>
             currentStepIndex' = IF currentStepIndex = NSteps - 1
                                 THEN currentStepIndex
                                 ELSE currentStepIndex + 1
       /\ goToPreviousStep =>
             currentStepIndex' = IF currentStepIndex = 0
                                 THEN currentStepIndex
                                 ELSE currentStepIndex - 1
       /\ (SimulateStep /\ isSimulated') => currentStepIndex' = 0]_vars

\* Playback at the last step of a trace of three steps or more.
C24_Witness ==
    /\ isSimulated
    /\ NSteps >= 3
    /\ currentStepIndex = NSteps - 1

\* C25: playback progress. After a successful Simulate, when Next keeps
\* being taken and neither Previous nor Reset intervenes, playback reaches
\* the last step, each Next before it raising the index by 1; and the
\* final-results total is displayed in exactly the states where all the
\* steps of a trace are visible.
C25_PlaybackProgress ==
    /\ isSimulated ~> (isSimulated /\ currentStepIndex = NSteps - 1
                          /\ FinalResultsShown)
    /\ [][goToNextStep => currentStepIndex' = currentStepIndex + 1]_vars
    /\ [](FinalResultsShown <=> (isSimulated /\ currentStepIndex = NSteps - 1))

\* The last step of a trace of four steps or more, the total displayed.
C25_Witness ==
    /\ isSimulated
    /\ NSteps >= 4
    /\ currentStepIndex = NSteps - 1
    /\ FinalResultsShown

\* The state Reset leaves behind, the two input fields apart.
Cleared ==
    /\ simulationSteps = <<>>
    /\ currentStepIndex = -1
    /\ pageFaults = 0
    /\ ~isSimulated
    /\ validationError = ErrNone

FaultPages(i) ==
    LET IsFaultSnapshot(s) == s.isFault
        f == SelectSeq(SubSeq(simulationSteps, 1, i), IsFaultSnapshot)
    IN  [j \in 1..Len(f) |-> f[j].pageReference]
ReplacedPages(i) ==
    LET HasReplaced(s) == s.replacedPage # null
        r == SelectSeq(SubSeq(simulationSteps, 1, i), HasReplaced)
    IN  [j \in 1..Len(r) |-> r[j].replacedPage]

\* C27: pages are evicted in exactly the order they were loaded. After any
\* number of steps the sequence of replaced pages is a prefix of the
\* sequence of pages loaded by the faults, and the load-order queue is the
\* rest of that sequence.
C27_EvictedInLoadOrder ==
    isSimulated =>
        \A T \in {Engines} :
            \A i \in 0..NSteps :
                FaultPages(i) = ReplacedPages(i) \o T[i + 1].loadOrder

\* Three replacements with a hit among the steps.
C27_Witness ==
    /\ isSimulated
    /\ Len(ReplacedPages(NSteps)) >= 3
    /\ Len(FaultPages(NSteps)) < NSteps

\* The slots of a frames array that hold a page, and those holding page p.
OccupiedSlots(frames) == {j \in 1..Len(frames) : frames[j] # null}
SlotsHolding(frames, p) == {j \in 1..Len(frames) : frames[j] = p}

\* C28: in every snapshot no page occupies two frames and no page appears
\* twice in the load-order queue, so the queue is as long as there are
\* occupied frames, and the lookup of a victim by its value finds exactly
\* one slot.
C28_NoDuplicatePages ==
    isSimulated =>
        \A T \in {Engines} :
            \A i \in 1..NSteps :
                LET s == simulationSteps[i]
                    queue == T[i + 1].loadOrder
                IN  /\ \A j, k \in OccupiedSlots(s.frames) :
                          j # k => s.frames[j] # s.frames[k]
                    /\ \A j, k \in 1..Len(queue) : j # k => queue[j] # queue[k]
                    /\ Len(queue) = Cardinality(OccupiedSlots(s.frames))
                    /\ s.replacedPage # null =>
                          /\ Cardinality(SlotsHolding(T[i].frames, s.replacedPage)) = 1
                          /\ Cardinality(SlotsHolding(T[i].frames, s.pageReference)) = 0

\* Page 0 referenced again while resident, in a run with a replacement.
C28_Witness ==
    /\ isSimulated
    /\ EvictionSteps # {}
    /\ \E i \in 2..NSteps :
          /\ simulationSteps[i].pageReference = 0
          /\ ~simulationSteps[i].isFault

\* C29: in every snapshot with a replaced page, that page differs from
\* pageReference and does not occur in the snapshot's frames; hence no
\* cell of the current column takes the victim's styling, and in the
\* column of a replacement the cell styled as the replacement is the one
\* cell holding pageReference.
C29_ReplacedPageGone ==
    isSimulated =>
        /\ \A i \in 1..NSteps :
              LET s == simulationSteps[i]
              IN  s.replacedPage # null =>
                      /\ s.replacedPage # s.pageReference
                      /\ s.replacedPage \notin Resident(s.frames)
        /\ \A G \in {GridClasses} :
              LET col == Len(visibleSteps)
                  styled == {f \in 1..frameCount.val : G[f][col] = "loaded-replace"}
              IN  /\ \A f \in 1..frameCount.val : G[f][col] # "replaced-cell"
                  /\ currentStepData.replacedPage # null =>
                        /\ Cardinality(styled) = 1
                        /\ \A f \in styled :
                              currentStepData.frames[f] = currentStepData.pageReference
                  /\ currentStepData.replacedPage = null => styled = {}

\* The current column shows a replacement in a slot other than the first.
C29_Witness ==
    /\ isSimulated
    /\ currentStepIndex >= 4
    /\ currentStepData.replacedPage # null
    /\ currentStepData.frames[2] = currentStepData.pageReference

====
